---- MODULE Spec2Model ----
(***************************************************************************)
(* A model of bioconda_utils/utils.py: the environment matrix (EnvMatrix), *)
(* the dependency graph builder (get_dag), the build-candidate filter      *)
(* (filter_recipes, Target) and the blacklist loader (get_blacklist).      *)
(* Each component has its own specification (SpecEnv, SpecDag, SpecFilter, *)
(* SpecQuick, SpecBlacklist) over the variables it owns; the variables of  *)
(* the other components stay at their idle values.                         *)
(***************************************************************************)
EXTENDS Integers, Sequences, FiniteSets, TLC

VARIABLES
    \* ---- EnvMatrix
    em_pc,        \* "new" | "ready" | "iterating" | "raised"
    em_env,       \* self.env: the mapping, as a sequence of <<key, value>> items
    em_pos,       \* how many combinations the running iteration has yielded
    em_out,       \* the combinations yielded by the running (or last) iteration
    em_runs,      \* how many iterations have been started
    \* ---- get_dag
    d_pc,         \* "call" | "returned"
    d_recipes,    \* the recipes argument: the metadata of each recipe path, in order
    d_blacklist,  \* the blacklist argument: None, or a set of package names
    d_restrict,   \* the restrict argument
    dag,          \* the returned nx.DiGraph: its nodes and its edges
    name2recipe,  \* the returned index: package name -> list of recipe paths
    \* ---- filter_recipes
    f_pc,         \* "start" | "filtering" | "returned" | "raised"
    f_exc,        \* the exception the generator ended with, "none" if none
    f_recipes,    \* the recipes argument (recipe paths, numbered in sorted order)
    f_matrix,     \* the env_matrix argument
    f_channels,   \* the channels argument
    f_force,      \* the force argument
    f_quick,      \* the quick argument
    f_mtimes,     \* per recipe, its files' modification times as read by is_new,
                  \* in ticks after the last commit date
    channel_packages, \* channel -> set of published package file names
    f_cand,       \* the local `recipes` once the quick filter has run
    f_i,          \* how many recipes of sorted(recipes) the loop has finished
    f_e,          \* how many environments of the current recipe are done
    targets,      \* the current recipe's set of Targets
    f_evals,      \* the current recipe's evaluations: environment, path, decision
    f_yielded,    \* the (recipe, targets) pairs yielded so far
    f_evaluated,  \* the recipes built_package_path has been called for
    f_needed,     \* the recipes some environment's tobuild returned True for
    f_failed,     \* the recipe whose path resolution failed, 0 if none
    \* ---- get_blacklist
    b_pc,         \* "call" | "reading" | "returned"
    b_blacklists, \* the blacklists argument: the lines of each file
    b_folder,     \* the recipe_folder argument
    b_p,          \* how many files have been read
    b_blacklist   \* the set get_blacklist builds and returns

emVars == <<em_pc, em_env, em_pos, em_out, em_runs>>
dVars == <<d_pc, d_recipes, d_blacklist, d_restrict, dag, name2recipe>>

fArgs == <<f_recipes, f_matrix, f_channels, f_force, f_quick>>
fVars == <<f_pc, f_exc, fArgs, f_mtimes, channel_packages, f_cand, f_i, f_e, targets,
           f_evals, f_yielded, f_evaluated, f_needed, f_failed>>

bVars == <<b_pc, b_blacklists, b_folder, b_p, b_blacklist>>

vars == <<emVars, dVars, fVars, bVars>>

\* The state of a component that is not in use.
EnvIdle ==
    /\ em_pc = "idle" /\ em_env = <<>> /\ em_pos = 0 /\ em_out = <<>> /\ em_runs = 0

DagIdle ==
    /\ d_pc = "idle" /\ d_recipes = <<>> /\ d_blacklist = [none |-> TRUE, names |-> {}]
    /\ d_restrict = TRUE /\ dag = [nodes |-> {}, edges |-> {}] /\ name2recipe = <<>>

FilterIdle ==
    /\ f_pc = "idle" /\ f_exc = "none" /\ f_recipes = {} /\ f_matrix = <<>>
    /\ f_channels = <<>> /\ f_force = FALSE /\ f_quick = FALSE /\ f_mtimes = <<>>
    /\ channel_packages = <<>> /\ f_cand = {} /\ f_i = 0 /\ f_e = 0 /\ targets = {}
    /\ f_evals = <<>> /\ f_yielded = <<>> /\ f_evaluated = {} /\ f_needed = {}
    /\ f_failed = 0

BlacklistIdle ==
    /\ b_pc = "idle" /\ b_blacklists = <<>> /\ b_folder = <<".">> /\ b_p = 0
    /\ b_blacklist = {}


(***************************************************************************)
(* Python values of the environment matrix: a str, an int, or a list of    *)
(* str.                                                                    *)
(***************************************************************************)
PyStr(s) == [t |-> "str", v |-> s]
PyInt(n) == [t |-> "int", v |-> n]
PyList(l) == [t |-> "list", v |-> l]

\* How many values a list-valued axis may hold.
MaxList == 2
\* How many axes a mapping may hold.
MaxAxes == 2
\* How many times one EnvMatrix is iterated.
MaxRuns == 2

EnvKeys == {"CONDA_PY", "CONDA_BOOST", "CONDA_NPY"}
VersionStrings == {"2.7", "3.5"}

SeqsUpTo(S, n) == UNION {[1..k -> S] : k \in 0..n}

EnvValues ==
    {PyStr(s) : s \in VersionStrings} \cup {PyInt(35)}
        \cup {PyList(l) : l \in SeqsUpTo({PyStr(s) : s \in VersionStrings}, MaxList)}

\* Every mapping of at most MaxAxes distinct keys, in the dict's item order.
EnvMappings ==
    {d \in SeqsUpTo(EnvKeys \X EnvValues, MaxAxes) :
        \A i, j \in 1..Len(d) : i # j => d[i][1] # d[j][1]}

isinstance_str(val) == val.t = "str"
isinstance_Iterable(val) == val.t \in {"str", "list"}

\* flatten_dict with the str test dropped and every value wrapped as one
\* scalar: a list-valued axis then yields the list itself.
flatten_dict_wrap(dict) ==
    [i \in 1..Len(dict) |-> << <<dict[i][1], dict[i][2]>> >>]

\* flatten_dict: per item, the list of (key, value) pairs of that axis.
flatten_dict(dict) ==
    [i \in 1..Len(dict) |->
        LET key == dict[i][1]
            val == dict[i][2]
            values == IF isinstance_str(val) \/ ~isinstance_Iterable(val)
                      THEN <<val>> ELSE val.v
        IN  [j \in 1..Len(values) |-> <<key, values[j]>>]]

\* itertools.product(*pools): the last pool varies fastest.
RECURSIVE product(_)
product(pools) ==
    IF pools = <<>> THEN << <<>> >>
    ELSE LET n == Len(pools)
             result == product(SubSeq(pools, 1, n - 1))
             pool == pools[n]
         IN  [k \in 1..(Len(result) * Len(pool)) |->
                Append(result[((k - 1) \div Len(pool)) + 1],
                       pool[((k - 1) % Len(pool)) + 1])]

\* EnvMatrix.__init__'s check: every value but CONDA_PY's is a str.
EnvValid(env) ==
    \A i \in 1..Len(env) : env[i][1] # "CONDA_PY" => isinstance_str(env[i][2])

\* EnvMatrix.__iter__: the sequence of combinations one iteration yields.
EnvIter(env) == product(flatten_dict(env))

\* EnvMatrix(env): keep the mapping, or raise ValueError.
EnvMatrixInit ==
    /\ em_pc = "new"
    /\ em_pc' = IF EnvValid(em_env) THEN "ready" ELSE "raised"
    /\ UNCHANGED <<em_env, em_pos, em_out, em_runs>>
    /\ UNCHANGED <<dVars, fVars, bVars>>

\* iter(matrix): a fresh generator over the product.
IterStart ==
    /\ em_pc = "ready"
    /\ em_runs < MaxRuns
    /\ em_pc' = "iterating"
    /\ em_pos' = 0
    /\ em_out' = <<>>
    /\ em_runs' = em_runs + 1
    /\ UNCHANGED em_env
    /\ UNCHANGED <<dVars, fVars, bVars>>

\* next(generator): yield the next combination, or stop when exhausted.
IterNext ==
    /\ em_pc = "iterating"
    /\ LET combos == EnvIter(em_env)
       IN  IF em_pos < Len(combos)
           THEN /\ em_out' = Append(em_out, combos[em_pos + 1])
                /\ em_pos' = em_pos + 1
                /\ em_pc' = "iterating"
           ELSE /\ em_pc' = "ready"
                /\ UNCHANGED <<em_out, em_pos>>
    /\ UNCHANGED <<em_env, em_runs>>
    /\ UNCHANGED <<dVars, fVars, bVars>>


(***************************************************************************)
(* get_dag.  A recipe is the metadata conda-build reads at its path: the   *)
(* package name and the build and run requirement lists.  A requirement is *)
(* a specifier, the sequence of its whitespace-delimited tokens; a recipe  *)
(* path is the recipe's position in the argument.                          *)
(***************************************************************************)
\* How many recipes get_dag is given.
MaxDagRecipes == 2

PackageNames == {"a", "b"}
BuildRequirements == {<<>>, << <<"a">> >>, << <<"b", ">=1.0">> >>, << <<"x", "1.2*">> >>}
RunRequirements == {<<>>, << <<"a", "0.3">> >>}
MetaDatas == [name : PackageNames, build : BuildRequirements, run : RunRequirements]

NoneBlacklist == [none |-> TRUE, names |-> {}]
Blacklists == {NoneBlacklist} \cup {[none |-> FALSE, names |-> s] : s \in SUBSET PackageNames}

EmptyGraph == [nodes |-> {}, edges |-> {}]
\* DiGraph.add_nodes_from
add_nodes_from(G, ns) == [G EXCEPT !.nodes = @ \cup ns]
\* DiGraph.add_edges_from: an edge adds both of its ends as nodes.
add_edges_from(G, es) ==
    [nodes |-> G.nodes \cup {e[1] : e \in es} \cup {e[2] : e \in es},
     edges |-> G.edges \cup es]

SeqToSet(q) == {q[i] : i \in 1..Len(q)}
\* get_deps: the first token of every build (or run) requirement.
get_deps(meta, build) ==
    LET reqs == IF build THEN meta.build ELSE meta.run
    IN  [i \in 1..Len(reqs) |-> Head(reqs[i])]

\* name2recipe[name] after the loop has passed recipes i..: the paths of the
\* recipes with that name, in the order of the argument.
RECURSIVE recipes_named(_, _, _)
recipes_named(recipes, name, i) ==
    IF i > Len(recipes) THEN <<>>
    ELSE (IF recipes[i].name = name THEN <<i>> ELSE <<>>)
            \o recipes_named(recipes, name, i + 1)

\* The name -> recipe paths index: names in the blacklist are skipped.
build_name2recipe(recipes, blacklist) ==
    LET kept == {recipes[i].name : i \in 1..Len(recipes)} \ blacklist
    IN  [n \in kept |-> recipes_named(recipes, n, 1)]

\* get_inner_deps with the restrict test lost: every dependency is yielded.
get_inner_deps_all(dependencies, n2r, restrict) == dependencies

\* get_inner_deps: a dependency is kept if it is in the index or restrict is off
\* (dep.split()[0] of a name get_deps yielded is that name).
get_inner_deps(dependencies, n2r, restrict) ==
    SelectSeq(dependencies, LAMBDA name : name \in DOMAIN n2r \/ ~restrict)

\* The loop over the metadata that adds every recipe's dependency edges.
RECURSIVE add_dependency_edges(_, _, _, _, _)
add_dependency_edges(G, metadata, i, n2r, restrict) ==
    IF i > Len(metadata) THEN G
    ELSE LET meta == metadata[i]
             name == meta.name
             deps == SeqToSet(get_inner_deps(
                        get_deps(meta, TRUE) \o get_deps(meta, FALSE), n2r, restrict))
         IN  add_dependency_edges(
                add_edges_from(G, {<<dep, name>> : dep \in deps}),
                metadata, i + 1, n2r, restrict)

\* get_dag(recipes, blacklist, restrict): the graph and the index.
get_dag(recipes, blacklist_arg, restrict) ==
    LET blacklist == IF blacklist_arg.none THEN {} ELSE blacklist_arg.names
        n2r == build_name2recipe(recipes, blacklist)
        G0 == add_nodes_from(EmptyGraph, {recipes[i].name : i \in 1..Len(recipes)})
    IN  <<add_dependency_edges(G0, recipes, 1, n2r, restrict), n2r>>

GetDag ==
    /\ d_pc = "call"
    /\ LET r == get_dag(d_recipes, d_blacklist, d_restrict)
       IN  /\ dag' = r[1]
           /\ name2recipe' = r[2]
    /\ d_pc' = "returned"
    /\ UNCHANGED <<d_recipes, d_blacklist, d_restrict>>
    /\ UNCHANGED <<emVars, fVars, bVars>>


(***************************************************************************)
(* filter_recipes.  The generator's body runs when its consumer asks for   *)
(* the next pair: FilterStart is the code before the loop, EvalEnv one     *)
(* pass of the loop over the environments, EndRecipe the end of that loop  *)
(* (the yield), FilterFinish the end of the loop over the recipes.         *)
(* Outside the generator are conda-build (the path a recipe builds to, and *)
(* whether it is skipped), the channels, the file system and the           *)
(* interpreter; what they answer is chosen when the code asks.             *)
(***************************************************************************)
\* How many candidate recipes filter_recipes is given.
MaxRecipes == 3
\* How many files a recipe directory holds.
MaxFiles == 2
\* The resolution of a modification time: ticks per day.
TicksPerDay == 2
\* is_new keeps a recipe when (m - last).days > -QuickWindowDays.
QuickWindowDays == 2

FileNames == {"pkg-1.0-py27_0.tar.bz2", "pkg-1.0-py35_0.tar.bz2"}
OutputPaths == {<<"conda-bld", "linux-64", f>> : f \in FileNames}
ProcessError == <<"CalledProcessError">>
ChannelLists == {<<>>, <<"bioconda">>, <<"bioconda", "conda-forge">>}
ChannelContents == {{}, {"pkg-1.0-py27_0.tar.bz2"}}

FilterMatrices ==
    { << <<"CONDA_PY", PyList(<<PyStr("2.7"), PyStr("3.5")>>)>> >>,
      << <<"CONDA_PY", PyList(<<PyStr("2.7"), PyStr("27")>>)>>,
         <<"CONDA_BOOST", PyStr("1.60")>> >>,
      << <<"CONDA_PY", PyInt(35)>> >>,
      << <<"CONDA_PY", PyStr("abc")>> >> }

\* Modification times, in ticks after the last commit date: more than two
\* days before it, exactly two days, a fraction of a day inside the two-day
\* window, one day before, and after it.
OldMTime == 0 - QuickWindowDays * TicksPerDay - 1
EdgeMTime == 0 - QuickWindowDays * TicksPerDay
InsideMTime == 0 - QuickWindowDays * TicksPerDay + 1
MTimes == {OldMTime, EdgeMTime, InsideMTime, 0 - TicksPerDay, 1}
CoarseMTimes == {OldMTime, 1}
FileMTimes(times) == {S \in SUBSET times : S # {} /\ Cardinality(S) <= MaxFiles}

\* os.path.basename
basename(path) == path[Len(path)]

\* sorted(recipes)
RECURSIVE sorted(_)
sorted(S) ==
    IF S = {} THEN <<>>
    ELSE LET m == CHOOSE x \in S : \A y \in S : x <= y
         IN  <<m>> \o sorted(S \ {m})

\* float(s), in tenths; ok is false where float raises ValueError.
float(val) ==
    IF val.t = "int" THEN [ok |-> TRUE, tenths |-> val.v * 10]
    ELSE CASE val.v = "2.7" -> [ok |-> TRUE, tenths |-> 27]
           [] val.v = "3.5" -> [ok |-> TRUE, tenths |-> 35]
           [] val.v = "27" -> [ok |-> TRUE, tenths |-> 270]
           [] OTHER -> [ok |-> FALSE, tenths |-> 0]

\* _string_or_float_to_integer_python: below 10 the value is a dotted version
\* and is multiplied by 10, otherwise it is truncated to an integer.
string_or_float_to_integer_python(s) ==
    LET f == float(s)
    IN  IF ~f.ok THEN [ok |-> FALSE, v |-> 0]
        ELSE IF f.tenths < 10 * 10 THEN [ok |-> TRUE, v |-> f.tenths]
        ELSE [ok |-> TRUE, v |-> f.tenths \div 10]

\* The environment built_package_path hands to conda-build: CONDA_PY as an
\* integer, every other value as it is.
normalized_env(env) ==
    [i \in 1..Len(env) |->
        IF env[i][1] = "CONDA_PY"
        THEN <<env[i][1], PyInt(string_or_float_to_integer_python(env[i][2]).v)>>
        ELSE env[i]]
recognized_python(env) ==
    \A i \in 1..Len(env) :
        env[i][1] = "CONDA_PY" => string_or_float_to_integer_python(env[i][2]).ok

\* Target: a package path and the environment it was resolved under.
Target(pkg, env) == [pkg |-> pkg, env |-> env]
Target_hash(t) == t.pkg
\* Target.__eq__ comparing the environment too.
Target_eq_with_env(a, b) == a.pkg = b.pkg /\ a.env = b.env
\* Target.__eq__
Target_eq(a, b) == a.pkg = b.pkg
\* set.update([t]): t is added unless an equal element is in the set.
set_update(S, t) ==
    IF \E u \in S : Target_hash(u) = Target_hash(t) /\ Target_eq(u, t) THEN S
    ELSE S \cup {t}

\* is_new: some file's (m - last).days is above -2; timedelta.days is the
\* floor of the difference in days.
is_new(mtimes) ==
    \E m \in mtimes : m \div TicksPerDay > 0 - QuickWindowDays

\* tobuild that lets a skipped recipe through.
tobuild_ignoring_skip(force, path, packages, skip) ==
    IF force THEN TRUE
    ELSE {c \in DOMAIN packages : basename(path) \in packages[c]} = {}
\* tobuild: force, then the channels, then the recipe's own skip.
tobuild(force, path, packages, skip) ==
    IF force THEN TRUE
    ELSE LET pkg == basename(path)
             in_channels == {c \in DOMAIN packages : pkg \in packages[c]}
         IN  IF in_channels # {} THEN FALSE
             ELSE IF skip THEN FALSE
             ELSE TRUE

\* The except clause that only drops the failing recipe and goes on.
on_process_error_skip(i) ==
    [pc |-> "filtering", exc |-> "none", i |-> i + 1]
\* except sp.CalledProcessError: log and exit(1).
on_process_error(i) ==
    [pc |-> "raised", exc |-> "SystemExit", i |-> i]

\* if targets: yield recipe, targets
yield_if_targets(yielded, recipe, tgts) ==
    IF tgts # {} THEN Append(yielded, [recipe |-> recipe, targets |-> tgts])
    ELSE yielded

\* The code of filter_recipes up to its loop: the channel index, the quick
\* filter and the progress template.  The matrices of FilterMatrices pass
\* EnvMatrix's check, and the channels and the commit log are taken to answer.
FilterStart ==
    /\ f_pc = "start"
    /\ \E packages \in [SeqToSet(f_channels) -> ChannelContents] :
          channel_packages' = packages
    /\ f_cand' = IF f_quick
                 THEN {recipe \in f_recipes : is_new(f_mtimes[recipe])}
                 ELSE f_recipes
    /\ IF f_quick /\ f_cand' = {}
       THEN \* raise StopIteration: the end of the generator, or RuntimeError
            \* where the interpreter runs generators under PEP 479.
            \E generator_stop \in BOOLEAN :
              IF generator_stop
              THEN f_pc' = "raised" /\ f_exc' = "RuntimeError"
              ELSE f_pc' = "returned" /\ f_exc' = "none"
       ELSE IF f_cand' = {}
       THEN \* max() of an empty sequence
            f_pc' = "raised" /\ f_exc' = "ValueError: max() arg is an empty sequence"
       ELSE f_pc' = "filtering" /\ f_exc' = "none"
    /\ UNCHANGED <<fArgs, f_mtimes, f_i, f_e, targets, f_evals, f_yielded,
                   f_evaluated, f_needed, f_failed>>
    /\ UNCHANGED <<emVars, dVars, bVars>>

\* One pass of `for env in env_matrix`: resolve the path, decide, add the Target.
EvalEnv ==
    /\ f_pc = "filtering"
    /\ f_i < Cardinality(f_cand)
    /\ f_e < Len(EnvIter(f_matrix))
    /\ LET recipe == sorted(f_cand)[f_i + 1]
           env == EnvIter(f_matrix)[f_e + 1]
           nenv == normalized_env(env)
           known == {k \in 1..Len(f_evals) : f_evals[k].nenv = nenv}
       IN  IF ~recognized_python(env)
           THEN /\ f_pc' = "raised"
                /\ f_exc' = "ValueError: unrecognized Python version"
                /\ UNCHANGED <<f_i, f_e, targets, f_evals, f_evaluated, f_needed,
                               f_failed>>
           ELSE \E path \in IF known # {} THEN {f_evals[k].pkg : k \in known}
                            ELSE OutputPaths \cup {ProcessError} :
                \E skip \in BOOLEAN :
                  /\ f_evaluated' = f_evaluated \cup {recipe}
                  /\ IF path = ProcessError
                     THEN LET h == on_process_error(f_i)
                          IN  /\ f_pc' = h.pc
                              /\ f_exc' = h.exc
                              /\ f_i' = h.i
                              /\ f_failed' = recipe
                              /\ IF h.pc = "filtering"
                                 THEN f_e' = 0 /\ targets' = {} /\ f_evals' = <<>>
                                 ELSE UNCHANGED <<f_e, targets, f_evals>>
                              /\ UNCHANGED f_needed
                     ELSE LET build == tobuild(f_force, path, channel_packages, skip)
                          IN  /\ targets' = IF build
                                            THEN set_update(targets, Target(path, env))
                                            ELSE targets
                              /\ f_evals' = Append(f_evals,
                                    [env |-> env, nenv |-> nenv, pkg |-> path,
                                     skip |-> skip, build |-> build])
                              /\ f_needed' = IF build THEN f_needed \cup {recipe}
                                             ELSE f_needed
                              /\ f_e' = f_e + 1
                              /\ UNCHANGED <<f_pc, f_exc, f_i, f_failed>>
    /\ UNCHANGED <<fArgs, f_mtimes, channel_packages, f_cand, f_yielded>>
    /\ UNCHANGED <<emVars, dVars, bVars>>

\* The end of the loop over the environments: yield the recipe if it has targets.
EndRecipe ==
    /\ f_pc = "filtering"
    /\ f_i < Cardinality(f_cand)
    /\ f_e = Len(EnvIter(f_matrix))
    /\ f_yielded' = yield_if_targets(f_yielded, sorted(f_cand)[f_i + 1], targets)
    /\ f_i' = f_i + 1
    /\ f_e' = 0
    /\ targets' = {}
    /\ f_evals' = <<>>
    /\ UNCHANGED <<f_pc, f_exc, fArgs, f_mtimes, channel_packages, f_cand,
                   f_evaluated, f_needed, f_failed>>
    /\ UNCHANGED <<emVars, dVars, bVars>>

\* The end of the loop over the recipes: the generator returns.
FilterFinish ==
    /\ f_pc = "filtering"
    /\ f_i = Cardinality(f_cand)
    /\ f_pc' = "returned"
    /\ UNCHANGED <<f_exc, fArgs, f_mtimes, channel_packages, f_cand, f_i, f_e,
                   targets, f_evals, f_yielded, f_evaluated, f_needed, f_failed>>
    /\ UNCHANGED <<emVars, dVars, bVars>>

FilterFresh ==
    /\ f_pc = "start" /\ f_exc = "none"
    /\ channel_packages = <<>> /\ f_cand = {} /\ f_i = 0 /\ f_e = 0 /\ targets = {}
    /\ f_evals = <<>> /\ f_yielded = <<>> /\ f_evaluated = {} /\ f_needed = {}
    /\ f_failed = 0
    /\ EnvIdle
    /\ DagIdle
    /\ BlacklistIdle

\* Every call of filter_recipes over at most MaxRecipes recipes; the files'
\* modification times are read by the quick filter alone.
InitFilter ==
    /\ f_recipes \in SUBSET (1..MaxRecipes)
    /\ f_matrix \in FilterMatrices
    /\ f_channels \in ChannelLists
    /\ f_force \in BOOLEAN
    /\ f_quick \in BOOLEAN
    /\ f_mtimes \in IF f_quick THEN [f_recipes -> FileMTimes(CoarseMTimes)]
                    ELSE {[recipe \in f_recipes |-> {1}]}
    /\ FilterFresh

\* The calls with quick=True, over every modification time.
InitQuick ==
    /\ f_recipes \in SUBSET (1..MaxRecipes)
    /\ f_matrix \in FilterMatrices
    /\ f_channels = <<>>
    /\ f_force = TRUE
    /\ f_quick = TRUE
    /\ f_mtimes \in [f_recipes -> FileMTimes(MTimes)]
    /\ FilterFresh

NextFilter == FilterStart \/ EvalEnv \/ EndRecipe \/ FilterFinish

SpecFilter == InitFilter /\ [][NextFilter]_vars

SpecQuick == InitQuick /\ [][NextFilter]_vars

\* The file names published in some configured channel.
Published == UNION {channel_packages[c] : c \in DOMAIN channel_packages}
\* The generator has ended, by returning or by raising.
FilterEnded == f_pc \in {"returned", "raised"}
\* The recipes of the pairs yielded so far.
YieldedRecipes == {f_yielded[k].recipe : k \in 1..Len(f_yielded)}

\* C2: tobuild returns true whenever force is true, whatever the channels hold
\* and whether or not the recipe is skipped; without force it returns false if
\* the path's file name is in some channel's package set, otherwise false if
\* the recipe is skipped under the environment, and otherwise true.
C2_ToBuildDecision ==
    \A k \in 1..Len(f_evals) :
        LET ev == f_evals[k]
            pkg == basename(ev.pkg)
        IN  /\ f_force => ev.build
            /\ (~f_force /\ pkg \in Published) => ~ev.build
            /\ (~f_force /\ pkg \notin Published /\ ev.skip) => ~ev.build
            /\ (~f_force /\ pkg \notin Published /\ ~ev.skip) => ev.build

\* C2's case: with force, a skipped recipe whose package is already in a channel
\* has been decided, and is to be built.
C2_Witness ==
    \E k \in 1..Len(f_evals) :
        /\ f_force /\ f_evals[k].skip /\ basename(f_evals[k].pkg) \in Published
        /\ f_evals[k].build

\* C3: with quick=true, a recipe all of whose files are older than the last
\* commit date minus two days is dropped before any environment is evaluated
\* for it, and a recipe with a file newer than that is kept, for every
\* modification time.
C3_QuickFilterWindow ==
    (f_quick /\ f_pc # "start") =>
        \A recipe \in f_recipes :
            /\ (\A m \in f_mtimes[recipe] : m < 0 - QuickWindowDays * TicksPerDay)
                  => (recipe \notin f_cand /\ recipe \notin f_evaluated)
            /\ (\E m \in f_mtimes[recipe] : m > 0 - QuickWindowDays * TicksPerDay)
                  => recipe \in f_cand

\* C4: for every collection of recipes, the empty one included, with quick on
\* or off: every pair yielded is for a recipe that survived the quick filter
\* and has an environment that requires a build, its target set is not empty
\* and holds only targets of environments tobuild returned true for; and a
\* call that is not aborted (by a failed path resolution or an unrecognized
\* version; the StopIteration of an emptied quick filter is C5's) ends
\* normally, having yielded exactly the surviving recipes that require a build.
C4_YieldsExactlyNeeded ==
    /\ \A k \in 1..Len(f_yielded) :
        /\ f_yielded[k].recipe \in f_cand \cap f_needed
        /\ f_yielded[k].targets # {}
    /\ \A t \in targets : \E k \in 1..Len(f_evals) :
        f_evals[k].build /\ f_evals[k].pkg = t.pkg /\ f_evals[k].env = t.env
    /\ (/\ FilterEnded
        /\ f_failed = 0
        /\ f_exc \notin {"ValueError: unrecognized Python version", "RuntimeError"})
          => (f_pc = "returned" /\ YieldedRecipes = f_cand \cap f_needed)

\* C5: when quick=true and the quick filter removes every candidate, the
\* generator ends at once with nothing yielded and no error for its consumer,
\* and no path is resolved and no decision evaluated.
C5_EmptyQuickEndsQuietly ==
    (f_quick /\ f_recipes # {} /\ f_pc # "start" /\ f_cand = {}) =>
        /\ f_pc = "returned" /\ f_exc = "none"
        /\ f_yielded = <<>>
        /\ f_evaluated = {} /\ f_evals = <<>>

\* C7: once the resolution of a path has failed with a process error, the run
\* has ended with a process exit: the failing recipe is not yielded, and no
\* recipe after it in the iteration order is evaluated or yielded.
C7_ResolverFailureAborts ==
    f_failed # 0 =>
        /\ f_pc = "raised" /\ f_exc = "SystemExit"
        /\ \A r \in YieldedRecipes : r < f_failed
        /\ \A r \in f_evaluated : r <= f_failed

\* C7's case: the resolution failed for a recipe that is not the last one, after
\* an earlier recipe had been yielded.
C7_Witness ==
    /\ f_failed # 0
    /\ f_pc = "raised"
    /\ \E r \in f_cand : r > f_failed
    /\ f_yielded # <<>>

\* C10: two Targets are equal, and hash equal, exactly when their paths are
\* equal, whatever their environments; so the target set of a recipe holds
\* exactly one target for every path an environment requiring a build
\* resolved to.
C10_OneTargetPerPath ==
    /\ \A k, l \in 1..Len(f_evals) :
        LET t == Target(f_evals[k].pkg, f_evals[k].env)
            u == Target(f_evals[l].pkg, f_evals[l].env)
        IN  /\ Target_eq(t, u) <=> (t.pkg = u.pkg)
            /\ Target_eq(t, u) => Target_hash(t) = Target_hash(u)
    /\ \A k \in 1..Len(f_evals) :
        f_evals[k].build =>
            Cardinality({t \in targets : t.pkg = f_evals[k].pkg}) = 1
    /\ \A k \in 1..Len(f_yielded) : \A t, u \in f_yielded[k].targets :
        t.pkg = u.pkg => t = u

\* C10's case: two different environments of one recipe resolved to the same
\* path, both require a build, and the target set holds one target.
C10_Witness ==
    /\ \E k, l \in 1..Len(f_evals) :
        /\ f_evals[k].env # f_evals[l].env
        /\ f_evals[k].pkg = f_evals[l].pkg
        /\ f_evals[k].build /\ f_evals[l].build
    /\ Cardinality(targets) = 1

(***************************************************************************)
(* get_blacklist.  A line is the sequence of its characters (its newline,  *)
(* which strip removes with the other whitespace, is left out); a path is  *)
(* such a string too, and what relpath returns is the sequence of the      *)
(* relative path's components.                                             *)
(***************************************************************************)
\* How many characters a line holds.
MaxLineLen == 3
\* How many lines a blacklist file holds.
MaxLines == 2

Chars == {" ", "#", "a", "/"}
Lines == SeqsUpTo(Chars, MaxLineLen)
RecipeFolders == {<<".">>, <<"a">>}
\* One file of up to MaxLines lines, or two files of up to one line each.
BlacklistArgs ==
    {<<f>> : f \in SeqsUpTo(Lines, MaxLines)}
        \cup {<<f, g>> : f, g \in SeqsUpTo(Lines, 1)}
\* The components of os.getcwd().
cwd == << <<"w">> >>

\* str.strip on the left and on the right
RECURSIVE lstrip(_)
lstrip(i) == IF i # <<>> /\ Head(i) = " " THEN lstrip(Tail(i)) ELSE i
RECURSIVE rstrip(_)
rstrip(i) ==
    IF i # <<>> /\ i[Len(i)] = " " THEN rstrip(SubSeq(i, 1, Len(i) - 1)) ELSE i
\* str.strip
strip(i) == rstrip(lstrip(i))
\* str.startswith
startswith(i, c) == i # <<>> /\ Head(i) = c

\* path.split("/"), left to right; cur is the component being read.
RECURSIVE split_sep(_, _)
split_sep(path, cur) ==
    IF path = <<>> THEN <<cur>>
    ELSE IF Head(path) = "/" THEN <<cur>> \o split_sep(Tail(path), <<>>)
    ELSE split_sep(Tail(path), Append(cur, Head(path)))
\* The components of os.path.abspath(path): relative paths start at the working
\* directory, and empty and "." components are dropped.
abspath_list(path) ==
    LET comps == SelectSeq(split_sep(path, <<>>), LAMBDA x : x # <<>> /\ x # <<".">>)
    IN  IF startswith(path, "/") THEN comps ELSE cwd \o comps
\* How many leading components two lists share.
RECURSIVE commonprefix_len(_, _)
commonprefix_len(a, b) ==
    IF a = <<>> \/ b = <<>> \/ Head(a) # Head(b) THEN 0
    ELSE 1 + commonprefix_len(Tail(a), Tail(b))
\* os.path.relpath(path, start), as the list of the result's components.
relpath(path, start) ==
    LET start_list == abspath_list(start)
        path_list == abspath_list(path)
        i == commonprefix_len(start_list, path_list)
        rel_list == [k \in 1..(Len(start_list) - i) |-> <<".", ".">>]
                        \o SubSeq(path_list, i + 1, Len(path_list))
    IN  IF rel_list = <<>> THEN << <<".">> >> ELSE rel_list

\* The entries one blacklist file adds: the lines that do not start with '#'
\* and are not blank, stripped and made relative to the recipe folder.
blacklist_entries(file, recipe_folder) ==
    {relpath(strip(file[k]), recipe_folder) :
        k \in {n \in 1..Len(file) : ~startswith(file[n], "#") /\ strip(file[n]) # <<>>}}

\* blacklist = set()
BlacklistOpen ==
    /\ b_pc = "call"
    /\ b_blacklist' = {}
    /\ b_p' = 0
    /\ b_pc' = "reading"
    /\ UNCHANGED <<b_blacklists, b_folder>>
    /\ UNCHANGED <<emVars, dVars, fVars>>

\* One pass of `for p in blacklists`: the file's entries join the set.
BlacklistRead ==
    /\ b_pc = "reading"
    /\ b_p < Len(b_blacklists)
    /\ b_blacklist' = b_blacklist \cup blacklist_entries(b_blacklists[b_p + 1], b_folder)
    /\ b_p' = b_p + 1
    /\ UNCHANGED <<b_pc, b_blacklists, b_folder>>
    /\ UNCHANGED <<emVars, dVars, fVars>>

\* return blacklist
BlacklistReturn ==
    /\ b_pc = "reading"
    /\ b_p = Len(b_blacklists)
    /\ b_pc' = "returned"
    /\ UNCHANGED <<b_blacklists, b_folder, b_p, b_blacklist>>
    /\ UNCHANGED <<emVars, dVars, fVars>>

InitBlacklist ==
    /\ b_pc = "call"
    /\ b_blacklists \in BlacklistArgs
    /\ b_folder \in RecipeFolders
    /\ b_p = 0
    /\ b_blacklist = {}
    /\ EnvIdle
    /\ DagIdle
    /\ FilterIdle

NextBlacklist == BlacklistOpen \/ BlacklistRead \/ BlacklistReturn

SpecBlacklist == InitBlacklist /\ [][NextBlacklist]_vars

\* Every line of every blacklist file.
AllBlacklistLines ==
    UNION {SeqToSet(b_blacklists[p]) : p \in 1..Len(b_blacklists)}
\* The content of a line: the line without its surrounding whitespace.
LineContent(line) == strip(line)

\* C8: get_blacklist returns exactly the entries named by the contents of the
\* lines that are neither comments (content starting with '#') nor blank;
\* whitespace around a line's content changes nothing.
C8_BlacklistIsNamedEntries ==
    b_pc = "returned" =>
        b_blacklist = {relpath(LineContent(line), b_folder) :
                        line \in {l \in AllBlacklistLines :
                                    /\ LineContent(l) # <<>>
                                    /\ ~startswith(LineContent(l), "#")}}

InitDag ==
    /\ d_pc = "call"
    /\ d_recipes \in SeqsUpTo(MetaDatas, MaxDagRecipes)
    /\ d_blacklist \in Blacklists
    /\ d_restrict \in BOOLEAN
    /\ dag = EmptyGraph
    /\ name2recipe = <<>>
    /\ EnvIdle
    /\ FilterIdle
    /\ BlacklistIdle

NextDag == GetDag

SpecDag == InitDag /\ [][NextDag]_vars

\* The blacklist get_dag works with.
DagBlacklisted == IF d_blacklist.none THEN {} ELSE d_blacklist.names
\* The package names of the supplied recipes.
DagRecipeNames == {d_recipes[i].name : i \in 1..Len(d_recipes)}
\* The dependency names recipe i declares.
DagDepsOf(i) == {Head(d_recipes[i].build[k]) : k \in 1..Len(d_recipes[i].build)}
                    \cup {Head(d_recipes[i].run[k]) : k \in 1..Len(d_recipes[i].run)}

\* C1: the returned graph has a node for every non-blacklisted package name
\* and none for a blacklisted one (nodes are a set: one per name), and no edge
\* has a blacklisted name as its source or its target.
C1_NoBlacklistedInGraph ==
    d_pc = "returned" =>
        /\ DagRecipeNames \ DagBlacklisted \subseteq dag.nodes
        /\ dag.nodes \cap DagBlacklisted = {}
        /\ \A e \in dag.edges : e[1] \notin DagBlacklisted /\ e[2] \notin DagBlacklisted

\* C6: with restrict=True, the source of every edge is a key of the returned
\* index, and a dependency whose name is not in the index adds neither an edge
\* nor a node: no edge leaves it, and the nodes are the recipes' package names.
C6_RestrictKeepsSourcesInIndex ==
    (d_pc = "returned" /\ d_restrict) =>
        /\ \A e \in dag.edges : e[1] \in DOMAIN name2recipe
        /\ \A i \in 1..Len(d_recipes) : \A dep \in DagDepsOf(i) :
              dep \notin DOMAIN name2recipe =>
                  \A e \in dag.edges : e[1] # dep
        /\ dag.nodes = DagRecipeNames

\* C6's case: restrict=True, a recipe with one dependency inside the index and
\* one outside it, and the graph returned with an edge.
C6_Witness ==
    /\ d_pc = "returned" /\ d_restrict
    /\ \E i \in 1..Len(d_recipes) :
        /\ \E dep \in DagDepsOf(i) : dep \notin DOMAIN name2recipe
        /\ \E dep \in DagDepsOf(i) : <<dep, d_recipes[i].name>> \in dag.edges

InitEnv ==
    /\ em_pc = "new"
    /\ em_env \in EnvMappings
    /\ em_pos = 0
    /\ em_out = <<>>
    /\ em_runs = 0
    /\ DagIdle
    /\ FilterIdle
    /\ BlacklistIdle

NextEnv == EnvMatrixInit \/ IterStart \/ IterNext

SpecEnv == InitEnv /\ [][NextEnv]_vars

\* The number of combinations the matrix calls for: the product of the sizes of
\* its list-valued axes.
RECURSIVE AxisSizeProduct(_)
AxisSizeProduct(env) ==
    IF env = <<>> THEN 1
    ELSE (IF Head(env)[2].t = "list" THEN Len(Head(env)[2].v) ELSE 1)
            * AxisSizeProduct(Tail(env))

\* An iteration has run to exhaustion.
IterationFinished == em_pc = "ready" /\ em_runs > 0

\* C9: one iteration of EnvMatrix over a valid mapping yields exactly the
\* product of the sizes of the list-valued axes, and every combination gives
\* every axis of the mapping exactly one value: one of the listed values of a
\* list-valued axis, the single value of a scalar axis.
C9_ProductOfAxes ==
    IterationFinished =>
        /\ Len(em_out) = AxisSizeProduct(em_env)
        /\ \A c \in 1..Len(em_out) :
            /\ Len(em_out[c]) = Len(em_env)
            /\ \A i \in 1..Len(em_env) :
                /\ em_out[c][i][1] = em_env[i][1]
                /\ IF em_env[i][2].t = "list"
                   THEN \E j \in 1..Len(em_env[i][2].v) :
                            em_out[c][i][2] = em_env[i][2].v[j]
                   ELSE em_out[c][i][2] = em_env[i][2]

\* C9's case: a mapping with a two-valued list axis and a scalar axis has been
\* iterated to the end.
C9_Witness ==
    /\ IterationFinished
    /\ Len(em_env) = 2
    /\ \E i, j \in 1..2 :
        /\ em_env[i][2].t = "list" /\ Len(em_env[i][2].v) = 2
        /\ em_env[j][2].t = "str"
    /\ Len(em_out) = 2

====
